---- MODULE Spec2Model ----
(***************************************************************************)
(* sshpick: the ssh-config parser (parseSSHConfig), the regex filter       *)
(* (filterHostsRegex) and the bubbletea model (model.Update) of            *)
(* src/main.go.                                                            *)
(*                                                                         *)
(* Go strings are modelled as sequences of one-character strings, so that  *)
(* trimming, splitting, prefix tests and regex matching are computed       *)
(* rather than assumed.                                                    *)
(*                                                                         *)
(* Records built inside actions list their fields in the order TLC keeps   *)
(* them (the order in which the field names first occur in the module), so *)
(* that TLC's workers never reorder a record while another one reads it.   *)
(*                                                                         *)
(* Six specifications share the module:                                    *)
(*   Spec        the interactive session: tea runtime + model.Update +     *)
(*               the tail of main() that hands the choice to ssh           *)
(*   SpecFilter  filterHostsRegex applied to bounded inputs                *)
(*   SpecParse   parseSSHConfig scanning a bounded file line by line       *)
(*   SpecPort    parseSSHConfig on a block with one LocalForward line      *)
(*   SpecCap     sessions that fill filterQuery up to its cap              *)
(*   SpecApply   one call of applyFilter on a five-host model              *)
(***************************************************************************)
EXTENDS Integers, Sequences, FiniteSets, TLC

VARIABLES
    \* ---- interactive session (Spec) ----
    m,              \* the bubbletea model struct (src/main.go:32-51)
    pc,             \* position of main(): "idle", "running", "quit", "exec", "exit"
    inflight,       \* number of editorFinishedMsg that tea.ExecProcess still owes
    lastMsg,        \* the message of the latest Update call (NoMsg before the first)
    sshArgs,        \* argv handed to ssh by runSSH, <<>> before the handoff
    \* ---- filterHostsRegex (SpecFilter) ----
    fAll,           \* argument all
    fPattern,       \* argument pattern
    fRes,           \* the call's result, [called |-> FALSE] before the call
    \* ---- parseSSHConfig (SpecParse) ----
    cfg,            \* the file: a sequence of raw lines
    dnsUp,          \* whether net.LookupIP answers during this parse
    lineNo,         \* lineNo of the scan loop
    acc,            \* the current-block accumulators
    hosts,          \* the hosts slice being built
    ppc             \* "idle", "scan", "done"

vars == <<m, pc, inflight, lastMsg, sshArgs, fAll, fPattern, fRes,
          cfg, dnsUp, lineNo, acc, hosts, ppc>>

tuiVars    == <<m, pc, inflight, lastMsg, sshArgs>>
filterVars == <<fAll, fPattern, fRes>>
parseVars  == <<cfg, dnsUp, lineNo, acc, hosts, ppc>>

----------------------------------------------------------------------------
(* Bounds of the model *)

MaxPat      == 2    \* longest pattern handed to filterHostsRegex in SpecFilter
MaxHosts    == 2    \* longest host list handed to filterHostsRegex in SpecFilter
MaxQuery    == 1    \* longest filterQuery typed in a session
MaxInflight == 1    \* editor completions that may be outstanding at once
MaxLines    == 3    \* longest config file scanned in SpecParse
MaxTok      == 3    \* longest LocalForward bind token scanned in SpecPort

----------------------------------------------------------------------------
(* Strings *)

Range(s) == {s[i] : i \in 1..Len(s)}

SetMin(S) == CHOOSE x \in S : \A y \in S : x <= y
SetMax(S) == CHOOSE x \in S : \A y \in S : x >= y

\* all sequences over S of length at most n
SeqsUpTo(S, n) == UNION {[1..k -> S] : k \in 0..n}

\* unicode.IsSpace restricted to the characters the model uses
WhiteSpace == {" ", "\t"}

\* strings.TrimSpace
TrimSpace(s) ==
    LET keep == {i \in 1..Len(s) : s[i] \notin WhiteSpace}
    IN  IF keep = {} THEN <<>> ELSE SubSeq(s, SetMin(keep), SetMax(keep))

\* strings.Contains(s, sub)
Contains(s, sub) ==
    \E i \in 0..(Len(s) - Len(sub)) : SubSeq(s, i + 1, i + Len(sub)) = sub

\* strings.HasPrefix(s, p)
HasPrefix(s, p) == Len(s) >= Len(p) /\ SubSeq(s, 1, Len(p)) = p

\* strings.Index(s, c) for a one-character c, 0-based, -1 when absent
Index(s, c) ==
    LET at == {i \in 1..Len(s) : s[i] = c}
    IN  IF at = {} THEN -1 ELSE SetMin(at) - 1

\* strings.LastIndex(s, c) for a one-character c, 0-based, -1 when absent
LastIndex(s, c) ==
    LET at == {i \in 1..Len(s) : s[i] = c}
    IN  IF at = {} THEN -1 ELSE SetMax(at) - 1

\* the Go slice expression s[lo:hi] with 0-based bounds
Slice(s, lo, hi) == SubSeq(s, lo + 1, hi)

----------------------------------------------------------------------------
(* regexp, for patterns over PatChars.  Over this alphabet the RE2 syntax   *)
(* is: literals, "|" for alternation (an empty alternative matches the     *)
(* empty string) and "(" which opens a group that is never closed.         *)

PatChars == {"n", "e", " ", "|", "("}

\* regexp.Compile: the only syntax error over PatChars is "missing closing )"
CompileFails(p) == "(" \in Range(p)

\* the alternatives of a compiled pattern: the pieces between the bars
Alternatives(p) ==
    LET cuts == {0, Len(p) + 1} \cup {i \in 1..Len(p) : p[i] = "|"}
    IN  {SubSeq(p, ab[1] + 1, ab[2] - 1) :
            ab \in {x \in cuts \X cuts :
                      /\ x[1] < x[2]
                      /\ \A c \in cuts : ~(x[1] < c /\ c < x[2])}}

\* (*Regexp).MatchString: unanchored, so some alternative occurs in s
MatchString(re, s) == \E alt \in Alternatives(re) : Contains(s, alt)

----------------------------------------------------------------------------
(* sshHost and filterHostsRegex *)

\* the sshHost struct
Host(alias, hostname, ip, user, port, lfs, notes, path, line) ==
    [Alias |-> alias, Hostname |-> hostname, IP |-> ip, User |-> user,
     Port |-> port, LocalForwards |-> lfs, Notes |-> notes,
     SourcePath |-> path, SourceLine |-> line]

\* the loops "for _, lf := range ... { if re.MatchString(lf) { matched = true; break } }"
RECURSIVE anyEntryMatches(_, _)
anyEntryMatches(re, entries) ==
    IF entries = <<>> THEN FALSE
    ELSE IF MatchString(re, Head(entries)) THEN TRUE
    ELSE anyEntryMatches(re, Tail(entries))

\* "if !matched { for ... }": matched after one of the two loops
orAnyEntry(matched, re, entries) ==
    IF ~matched THEN anyEntryMatches(re, entries) ELSE matched

\* the five standalone tests that initialise matched
fieldMatched(re, h) ==
    \/ MatchString(re, h.Alias)
    \/ MatchString(re, h.Hostname)
    \/ MatchString(re, h.IP)
    \/ MatchString(re, h.User)
    \/ MatchString(re, h.Port)

hostMatched_NoNotes(re, h) ==
    orAnyEntry(fieldMatched(re, h), re, h.LocalForwards)

\* the body of the loop over all: the value of matched at "if matched"
hostMatched(re, h) ==
    orAnyEntry(orAnyEntry(fieldMatched(re, h), re, h.LocalForwards), re, h.Notes)

\* "for _, h := range all { ...; if matched { out = append(out, h) } }"
RECURSIVE filterLoop(_, _, _)
filterLoop(all, re, out) ==
    IF all = <<>> THEN out
    ELSE filterLoop(Tail(all), re,
                    IF hostMatched(re, Head(all)) THEN Append(out, Head(all))
                    ELSE out)

\* filterHostsRegex after "pattern = strings.TrimSpace(pattern)": err is
\* "err != nil"; a nil slice is the empty sequence; same tells whether the
\* returned slice is the argument itself
filterTrimmed(all, pattern) ==
    IF pattern = <<>>
    THEN [hosts |-> all, err |-> FALSE, same |-> TRUE]
    ELSE IF CompileFails(pattern)
    THEN [hosts |-> <<>>, err |-> TRUE, same |-> FALSE]
    ELSE [hosts |-> filterLoop(all, pattern, <<>>), err |-> FALSE, same |-> FALSE]

filterHostsRegex(all, pattern) == filterTrimmed(all, TrimSpace(pattern))

----------------------------------------------------------------------------
(* SpecFilter: filterHostsRegex on bounded inputs *)

\* hosts that each match through a different searched field
FilterPool ==
    { Host(<<"n">>, <<>>, <<>>, <<>>, <<>>, <<>>, <<>>, <<"c">>, 1),
      Host(<<"x">>, <<"e">>, <<>>, <<>>, <<>>, <<>>, <<>>, <<"c">>, 1),
      Host(<<"y">>, <<"z">>, <<":", ":", "e">>, <<>>, <<>>, <<>>, <<>>, <<"c">>, 2),
      Host(<<"u">>, <<>>, <<>>, <<"e", "n">>, <<>>, <<>>, <<>>, <<"c">>, 3),
      Host(<<"p">>, <<>>, <<>>, <<>>, <<"n">>, <<>>, <<>>, <<"c">>, 4),
      Host(<<"f">>, <<>>, <<>>, <<>>, <<>>, <<<<"x">>, <<"e">>>>, <<>>, <<"c">>, 5),
      Host(<<"t">>, <<>>, <<>>, <<>>, <<>>, <<>>, <<<<"x">>, <<"n", " ", "e">>>>, <<"c">>, 6) }

NotCalled == [called |-> FALSE]

IdleTui == /\ m = [idle |-> TRUE]
           /\ pc = "idle"
           /\ inflight = 0
           /\ lastMsg = [kind |-> "none"]
           /\ sshArgs = <<>>

IdleFilter == /\ fAll = <<>>
              /\ fPattern = <<>>
              /\ fRes = NotCalled

IdleParse == /\ cfg = <<>>
             /\ dnsUp = FALSE
             /\ lineNo = 0
             /\ acc = [idle |-> TRUE]
             /\ hosts = <<>>
             /\ ppc = "idle"

InitFilter ==
    /\ fAll \in SeqsUpTo(FilterPool, MaxHosts)
    /\ fPattern \in SeqsUpTo(PatChars, MaxPat)
    /\ fRes = NotCalled
    /\ IdleTui
    /\ IdleParse

\* the call filterHostsRegex(fAll, fPattern)
FilterCall ==
    /\ fRes = NotCalled
    /\ fRes' = [called |-> TRUE] @@ filterHostsRegex(fAll, fPattern)
    /\ UNCHANGED <<fAll, fPattern, tuiVars, parseVars>>

NextFilter == FilterCall

SpecFilter == InitFilter /\ [][NextFilter]_vars

----------------------------------------------------------------------------
(* C3 *)

\* the searched fields of a host
SearchedFields(h) ==
    {h.Alias, h.Hostname, h.IP, h.User, h.Port}
        \cup Range(h.LocalForwards) \cup Range(h.Notes)

\* sub is all restricted to the hosts satisfying keep, in the order of all
IsSelection(sub, all, keep(_)) ==
    \E idx \in SUBSET (1..Len(all)) :
        /\ idx = {i \in 1..Len(all) : keep(all[i])}
        /\ Len(sub) = Cardinality(idx)
        /\ \A k \in 1..Len(sub) :
              \E i \in idx : /\ Cardinality({j \in idx : j < i}) = k - 1
                             /\ sub[k] = all[i]

\* C3 as amended: filterHostsRegex returns its input itself when the trimmed
\* pattern is empty; when the trimmed pattern does not compile it returns an
\* error and no hosts; otherwise it returns exactly the hosts for which the
\* TRIMMED pattern matches at least one searched field, in input order.
C3_FilterExact ==
    fRes.called =>
        LET p == TrimSpace(fPattern)
        IN  IF p = <<>> THEN fRes.same /\ fRes.hosts = fAll /\ ~fRes.err
            ELSE IF CompileFails(p) THEN fRes.err /\ fRes.hosts = <<>>
            ELSE /\ ~fRes.err
                 /\ IsSelection(fRes.hosts, fAll,
                        LAMBDA h : \E f \in SearchedFields(h) : MatchString(p, f))

\* a call with a non-empty pattern that keeps one of two hosts, the kept one
\* matching only through a note
C3_Witness ==
    /\ fRes.called
    /\ TrimSpace(fPattern) # <<>>
    /\ Len(fAll) = 2 /\ Len(fRes.hosts) = 1
    /\ ~MatchString(TrimSpace(fPattern), fRes.hosts[1].Alias)
    /\ \E note \in Range(fRes.hosts[1].Notes) : MatchString(TrimSpace(fPattern), note)

\* C3 as stated: the hosts returned for a non-empty pattern are exactly those
\* that the pattern, as passed, matches in some searched field.
C3_Original ==
    (fRes.called /\ TrimSpace(fPattern) # <<>> /\ ~CompileFails(fPattern)) =>
        IsSelection(fRes.hosts, fAll,
            LAMBDA h : \E f \in SearchedFields(h) : MatchString(fPattern, f))

----------------------------------------------------------------------------
(* parseSSHConfig *)

\* strings.Fields: the maximal runs of non-space characters, in order
Fields(s) ==
    LET starts == {i \in 1..Len(s) :
                      s[i] \notin WhiteSpace /\ (i = 1 \/ s[i - 1] \in WhiteSpace)}
        kth(k) == CHOOSE i \in starts : Cardinality({j \in starts : j < i}) = k - 1
        endOf(i) == SetMin({j \in i..Len(s) : j = Len(s) \/ s[j + 1] \in WhiteSpace})
    IN  [k \in 1..Cardinality(starts) |-> SubSeq(s, kth(k), endOf(kth(k)))]

UpperCase == <<"A", "B", "C", "D", "E", "F", "G", "H", "I", "J", "K", "L", "M", "N", "O", "P", "Q", "R", "S", "T", "U", "V", "W", "X", "Y", "Z">>
LowerCase == <<"a", "b", "c", "d", "e", "f", "g", "h", "i", "j", "k", "l", "m", "n", "o", "p", "q", "r", "s", "t", "u", "v", "w", "x", "y", "z">>

\* strings.ToLower
ToLower(s) ==
    [i \in 1..Len(s) |->
        IF s[i] \in Range(UpperCase)
        THEN LowerCase[CHOOSE k \in 1..Len(UpperCase) : UpperCase[k] = s[i]]
        ELSE s[i]]

\* strings.ContainsAny(s, chars)
ContainsAny(s, chars) == Range(s) \cap chars # {}

\* strings.Index(s, sub) for a string sub, 0-based, -1 when absent
IndexStr(s, sub) ==
    LET at == {i \in 0..(Len(s) - Len(sub)) : SubSeq(s, i + 1, i + Len(sub)) = sub}
    IN  IF at = {} THEN -1 ELSE SetMin(at)

Digits == <<"0", "1", "2", "3", "4", "5", "6", "7", "8", "9">>
DigitVal(c) == (CHOOSE k \in 1..10 : Digits[k] = c) - 1

RECURSIVE Atoi(_)
Atoi(s) == IF s = <<>> THEN 0
           ELSE 10 * Atoi(SubSeq(s, 1, Len(s) - 1)) + DigitVal(s[Len(s)])

\* the pieces of s between the separators c
SplitOn(s, c) ==
    LET cuts == {0, Len(s) + 1} \cup {i \in 1..Len(s) : s[i] = c}
        kth(k) == CHOOSE i \in cuts : Cardinality({j \in cuts : j < i}) = k - 1
    IN  [k \in 1..(Cardinality(cuts) - 1) |-> SubSeq(s, kth(k) + 1, kth(k + 1) - 1)]

\* net.ParseIP(s) != nil, for the dotted-quad form: four decimal fields of one
\* to three digits, without leading zeros, each at most 255
ParseIPOk(s) ==
    LET parts == SplitOn(s, ".")
    IN  /\ Len(parts) = 4
        /\ \A k \in 1..4 :
              /\ Len(parts[k]) \in 1..3
              /\ Range(parts[k]) \subseteq Range(Digits)
              /\ (Len(parts[k]) > 1 => parts[k][1] # "0")
              /\ Atoi(parts[k]) <= 255

\* the address net.LookupIP answers with when the resolver is reachable
LookupAnswer == <<"9", ".", "9", ".", "9", ".", "9">>

\* the IP field of a record: lines 122-128
resolveIP(hostname, up) ==
    IF hostname # <<>>
    THEN IF ParseIPOk(hostname) THEN hostname
         ELSE IF up THEN LookupAnswer ELSE <<>>
    ELSE <<>>

\* extractLocalForwardPort
extractLocalForwardPort(arg0) ==
    LET arg  == TrimSpace(arg0)
        idx1 == IndexStr(arg, <<"]", ":">>)
        idx2 == LastIndex(arg, ":")
    IN  IF arg = <<>> THEN <<>>
        ELSE IF idx1 >= 0 /\ idx1 + 2 < Len(arg)
        THEN TrimSpace(Slice(arg, idx1 + 2, Len(arg)))
        ELSE IF idx2 >= 0 /\ idx2 + 1 < Len(arg)
        THEN TrimSpace(Slice(arg, idx2 + 1, Len(arg)))
        ELSE arg

\* the accumulators of the current block, as declared: all empty, hostLine 0
EmptyFields == [hostname |-> <<>>, user |-> <<>>, port |-> <<>>]
EmptyAcc ==
    [notes |-> <<>>, aliases |-> <<>>, fields |-> EmptyFields,
     localForwards |-> <<>>, hostLine |-> 0]

\* the characters that make an alias a pattern
PatternChars == {"*", "?", "!"}

\* the loop of commit: one record per alias that is not a pattern
RECURSIVE commitLoop(_, _, _, _)
commitLoop(aliases, a, hs, up) ==
    IF aliases = <<>> THEN hs
    ELSE commitLoop(Tail(aliases), a,
            IF ContainsAny(Head(aliases), PatternChars) THEN hs
            ELSE Append(hs, Host(Head(aliases), a.fields.hostname,
                                 resolveIP(a.fields.hostname, up),
                                 a.fields.user, a.fields.port,
                                 a.localForwards, a.notes, <<"c">>, a.hostLine)),
            up)

\* commit(): returns at once, resetting nothing, when no alias is pending
commit(a, hs, up) ==
    IF Len(a.aliases) = 0 THEN [acc |-> a, hosts |-> hs]
    ELSE [acc |-> EmptyAcc, hosts |-> commitLoop(a.aliases, a, hs, up)]

addNote(a, note) == IF note # <<>> THEN [a EXCEPT !.notes = Append(@, note)] ELSE a

\* the directive part and the trailing comment of a line that is neither
\* blank nor a standalone comment: lines 154-157
SplitComment(line) ==
    LET idx == Index(line, "#")
    IN  IF idx >= 0
        THEN [line    |-> TrimSpace(Slice(line, 0, idx)),
              comment |-> TrimSpace(Slice(line, idx + 1, Len(line)))]
        ELSE [line |-> line, comment |-> <<>>]

K_host         == <<"h", "o", "s", "t">>
K_hostname     == <<"h", "o", "s", "t", "n", "a", "m", "e">>
K_user         == <<"u", "s", "e", "r">>
K_port         == <<"p", "o", "r", "t">>
K_localforward == <<"l", "o", "c", "a", "l", "f", "o", "r", "w", "a", "r", "d">>

\* the switch on key: lines 177-194
directive(a, hs, line, parts, n, up) ==
    LET key   == ToLower(parts[1])
        value == TrimSpace(Slice(line, Len(parts[1]), Len(line)))
    IN  CASE key = K_host ->
               LET c == commit(a, hs, up)
               IN  [acc |-> [c.acc EXCEPT !.aliases = Tail(parts), !.hostLine = n],
                    hosts |-> c.hosts]
          [] key = K_hostname ->
               [acc |-> [a EXCEPT !.fields.hostname = value], hosts |-> hs]
          [] key = K_user ->
               [acc |-> [a EXCEPT !.fields.user = value], hosts |-> hs]
          [] key = K_port ->
               [acc |-> [a EXCEPT !.fields.port = value], hosts |-> hs]
          [] key = K_localforward ->
               LET port == extractLocalForwardPort(TrimSpace(parts[2]))
               IN  [acc |-> IF port # <<>>
                            THEN [a EXCEPT !.localForwards = Append(@, port)]
                            ELSE a,
                    hosts |-> hs]
          [] OTHER -> [acc |-> a, hosts |-> hs]

\* the body of "for sc.Scan()" for the raw line numbered n: lines 142-194
scanLine(a, hs, raw, n, up) ==
    LET line == TrimSpace(raw)
    IN  IF line = <<>> THEN [acc |-> a, hosts |-> hs]
        ELSE IF HasPrefix(line, <<"#">>)
        THEN [acc |-> addNote(a, TrimSpace(Slice(line, 1, Len(line)))), hosts |-> hs]
        ELSE LET sp == SplitComment(line)
             IN  IF sp.line = <<>>
                 THEN [acc |-> addNote(a, sp.comment), hosts |-> hs]
                 ELSE LET a1    == addNote(a, sp.comment)
                          parts == Fields(sp.line)
                      IN  IF Len(parts) < 2 THEN [acc |-> a1, hosts |-> hs]
                          ELSE directive(a1, hs, sp.line, parts, n, up)

----------------------------------------------------------------------------
(* SpecParse: parseSSHConfig on a bounded file *)

L_blank        == <<" ", " ">>   \* '  '
L_comment      == <<"#", " ", "n">>   \* '# n'
L_hostA        == <<"H", "o", "s", "t", " ", "a">>   \* 'Host a'
L_hostBC       == <<"H", "o", "s", "t", " ", "b", " ", "c">>   \* 'Host b c'
L_hostStarD    == <<"H", "o", "s", "t", " ", "*", " ", "d">>   \* 'Host * d'
L_hostPatterns == <<"H", "o", "s", "t", " ", "!", "x", " ", "y", "?">>   \* 'Host !x y?'
L_hostname     == <<" ", " ", "H", "o", "s", "t", "N", "a", "m", "e", " ", "h", ".", "x", " ", "#", " ", "k">>   \* '  HostName h.x # k'
L_hostIP       == <<"H", "o", "s", "t", "n", "a", "m", "e", " ", "1", ".", "2", ".", "3", ".", "4">>   \* 'Hostname 1.2.3.4'
L_user         == <<"U", "s", "e", "r", " ", "u">>   \* 'User u'
L_localForward == <<"L", "o", "c", "a", "l", "F", "o", "r", "w", "a", "r", "d", " ", "8", ":", "h", ":", "9", " ", "h", ":", "7">>   \* 'LocalForward 8:h:9 h:7'
L_hostOnly     == <<"H", "o", "s", "t">>   \* 'Host'
L_port         == <<"P", "o", "r", "t", " ", "2">>   \* 'Port 2'
L_hostUpper    == <<"H", "O", "S", "T", " ", "e", " ", "#", " ", "m">>   \* 'HOST e # m'

LineCatalogue ==
    {L_blank, L_comment, L_hostA, L_hostBC, L_hostStarD, L_hostPatterns, L_hostname, L_user,
      L_localForward, L_hostOnly, L_port, L_hostUpper, L_hostIP}

InitParse ==
    /\ cfg \in SeqsUpTo(LineCatalogue, MaxLines)
    /\ dnsUp \in BOOLEAN
    /\ lineNo = 0
    /\ acc = EmptyAcc
    /\ hosts = <<>>
    /\ ppc = "scan"
    /\ IdleTui
    /\ IdleFilter

ScanLine_ZeroBased ==
    /\ ppc = "scan"
    /\ lineNo < Len(cfg)
    /\ lineNo' = lineNo + 1
    /\ LET r == scanLine(acc, hosts, cfg[lineNo + 1], lineNo, dnsUp)
       IN  acc' = r.acc /\ hosts' = r.hosts
    /\ UNCHANGED <<cfg, dnsUp, ppc, tuiVars, filterVars>>

\* sc.Scan() returns a line: one iteration of the loop
ScanLine ==
    /\ ppc = "scan"
    /\ lineNo < Len(cfg)
    /\ lineNo' = lineNo + 1
    /\ LET r == scanLine(acc, hosts, cfg[lineNo + 1], lineNo + 1, dnsUp)
       IN  acc' = r.acc /\ hosts' = r.hosts
    /\ UNCHANGED <<cfg, dnsUp, ppc, tuiVars, filterVars>>

ScanEnd_NoCommit ==
    /\ ppc = "scan"
    /\ lineNo = Len(cfg)
    /\ ppc' = "done"
    /\ UNCHANGED <<cfg, dnsUp, lineNo, acc, hosts, tuiVars, filterVars>>

\* sc.Scan() returns false at end of input: the last commit, sc.Err() is nil,
\* hosts is returned
ScanEnd ==
    /\ ppc = "scan"
    /\ lineNo = Len(cfg)
    /\ LET r == commit(acc, hosts, dnsUp)
       IN  acc' = r.acc /\ hosts' = r.hosts
    /\ ppc' = "done"
    /\ UNCHANGED <<cfg, dnsUp, lineNo, tuiVars, filterVars>>

\* sc.Scan() returns false on a read error: the last commit still runs, then
\* sc.Err() is not nil and nil, err is returned
ScanError ==
    /\ ppc = "scan"
    /\ lineNo < Len(cfg)
    /\ acc' = commit(acc, hosts, dnsUp).acc
    /\ hosts' = <<>>
    /\ ppc' = "error"
    /\ UNCHANGED <<cfg, dnsUp, lineNo, tuiVars, filterVars>>

NextParse == ScanLine \/ ScanEnd \/ ScanError

SpecParse == InitParse /\ [][NextParse]_vars

----------------------------------------------------------------------------
(* SpecPort: parseSSHConfig on the file "Host a" / "LocalForward <bind> h:7" *)
(* for every bind token over TokenChars                                     *)

TokenChars == {"8", ":", "[", "]"}

\* the bind tokens: not empty, without white space or "#"
BindTokens == SeqsUpTo(TokenChars, MaxTok) \ {<<>>}

\* the line 'LocalForward <bind> h:7'
LocalForwardLine(bind) ==
    <<"L", "o", "c", "a", "l", "F", "o", "r", "w", "a", "r", "d", " ">>
        \o bind \o <<" ", "h", ":", "7">>

InitPort ==
    /\ \E bind \in BindTokens : cfg = <<L_hostA, LocalForwardLine(bind)>>
    /\ dnsUp \in BOOLEAN
    /\ lineNo = 0
    /\ acc = EmptyAcc
    /\ hosts = <<>>
    /\ ppc = "scan"
    /\ IdleTui
    /\ IdleFilter

SpecPort == InitPort /\ [][NextParse]_vars

----------------------------------------------------------------------------
(* Claims about the parser *)

\* the whitespace-separated tokens of the directive part of a raw line
\* (nothing for a blank line or a standalone comment)
DirectiveTokens(raw) ==
    LET line == TrimSpace(raw)
    IN  IF line = <<>> \/ HasPrefix(line, <<"#">>) THEN <<>>
        ELSE Fields(SplitComment(line).line)

\* the alias tokens of a raw line: the tokens after the keyword of a Host line
AliasTokens(raw) ==
    LET toks == DirectiveTokens(raw)
    IN  IF Len(toks) >= 1 /\ ToLower(toks[1]) = K_host THEN Tail(toks) ELSE <<>>

\* the alias tokens without pattern characters of all lines, in file order
RECURSIVE DeclaredAliases(_)
DeclaredAliases(ls) ==
    IF ls = <<>> THEN <<>>
    ELSE SelectSeq(AliasTokens(Head(ls)), LAMBDA a : Range(a) \cap {"*", "?", "!"} = {})
            \o DeclaredAliases(Tail(ls))

\* C10: the aliases of the returned records are exactly the alias tokens of
\* the Host lines that contain none of * ? !, one record per token, in file
\* order.
C10_AliasesExact ==
    ppc = "done" => [i \in 1..Len(hosts) |-> hosts[i].Alias] = DeclaredAliases(cfg)

\* a file with a two-alias block, then a block of patterns only that closes
\* the file: two records
C10_Witness ==
    /\ ppc = "done"
    /\ Len(cfg) = 3
    /\ cfg[1] = L_hostBC /\ cfg[2] = L_user /\ cfg[3] = L_hostPatterns
    /\ Len(hosts) = 2

\* a file whose only Host line mixes a pattern and a name
C10_WitnessMixed ==
    /\ ppc = "done"
    /\ cfg = <<L_hostStarD>>
    /\ Len(hosts) = 1 /\ hosts[1].Alias = <<"d">>

\* the non-pattern alias tokens of one raw line
NamedAliases(raw) ==
    SelectSeq(AliasTokens(raw), LAMBDA a : Range(a) \cap {"*", "?", "!"} = {})

\* for every declared alias, in file order, the 1-based number of the line
\* that declares it; n is the number of the first line of ls
RECURSIVE DeclaredLines(_, _)
DeclaredLines(ls, n) ==
    IF ls = <<>> THEN <<>>
    ELSE [k \in 1..Len(NamedAliases(Head(ls))) |-> n] \o DeclaredLines(Tail(ls), n + 1)

\* C11: the SourceLine of every returned record is the 1-based number, blank
\* and comment lines counted, of the Host line that declares its alias; the
\* aliases of one Host line share it, those of the last block included.
C11_SourceLines ==
    ppc = "done" => [i \in 1..Len(hosts) |-> hosts[i].SourceLine] = DeclaredLines(cfg, 1)

\* a comment line and a blank line, then a two-alias Host line that closes
\* the file: both records carry line 3
C11_Witness ==
    /\ ppc = "done"
    /\ cfg = <<L_comment, L_blank, L_hostBC>>
    /\ Len(hosts) = 2
    /\ hosts[1].SourceLine = 3 /\ hosts[2].SourceLine = 3

\* two blocks: the first is committed by the second Host line, the second at
\* end of input
C11_WitnessTwoBlocks ==
    /\ ppc = "done"
    /\ cfg = <<L_blank, L_hostA, L_hostBC>>
    /\ Len(hosts) = 3
    /\ hosts[1].SourceLine = 2 /\ hosts[3].SourceLine = 3

\* a line with a directive part: neither blank nor a standalone comment
IsDirectiveLine(raw) ==
    LET line == TrimSpace(raw)
    IN  line # <<>> /\ ~HasPrefix(line, <<"#">>)

\* the comment text a raw line carries, standalone or trailing; <<>> if none
CommentOf(raw) ==
    LET line == TrimSpace(raw)
    IN  IF line = <<>> THEN <<>>
        ELSE IF HasPrefix(line, <<"#">>) THEN TrimSpace(Slice(line, 1, Len(line)))
        ELSE SplitComment(line).comment

\* the number of the Host line whose block the directive line i lies in, 0
\* when no Host line with aliases precedes it
BlockOfLine(ls, i) ==
    LET opens == {j \in 1..i : AliasTokens(ls[j]) # <<>>}
    IN  IF opens = {} THEN 0 ELSE SetMax(opens)

\* the block a comment belongs to: that of its own line for a trailing
\* comment, that of the next directive line below for a standalone comment
\* (the comment stands above that line); 0 when there is none
OwnerOfComment(ls, i) ==
    IF IsDirectiveLine(ls[i]) THEN BlockOfLine(ls, i)
    ELSE LET below == {j \in (i + 1)..Len(ls) : IsDirectiveLine(ls[j])}
         IN  IF below = {} THEN 0 ELSE BlockOfLine(ls, SetMin(below))

\* the numbers of the lines that carry a comment owned by block n, ascending
RECURSIVE CommentLines(_, _, _)
CommentLines(ls, n, i) ==
    IF i > Len(ls) THEN <<>>
    ELSE (IF CommentOf(ls[i]) # <<>> /\ OwnerOfComment(ls, i) = n THEN <<i>> ELSE <<>>)
            \o CommentLines(ls, n, i + 1)

\* the comments of the block opened at line n, in file order
OwnComments(ls, n) ==
    [k \in 1..Len(CommentLines(ls, n, 1)) |-> CommentOf(ls[CommentLines(ls, n, 1)[k]])]

\* a occurs in b as a subsequence
RECURSIVE IsSubseq(_, _)
IsSubseq(a, b) ==
    IF a = <<>> THEN TRUE
    ELSE IF b = <<>> THEN FALSE
    ELSE IF Head(a) = Head(b) THEN IsSubseq(Tail(a), Tail(b))
    ELSE IsSubseq(a, Tail(b))

\* C12 as stated: the comments above, between or trailing the directive
\* lines of a block, its Host line included, occur in file order in the Notes
\* of every record of the block, and Notes holds no comment of another block.
C12_Original ==
    ppc = "done" =>
        \A r \in 1..Len(hosts) :
            LET n == hosts[r].SourceLine
            IN  /\ IsSubseq(OwnComments(cfg, n), hosts[r].Notes)
                /\ \A i \in 1..Len(cfg) :
                      ( /\ CommentOf(cfg[i]) # <<>>
                        /\ OwnerOfComment(cfg, i) \notin {0, n}
                        /\ CommentOf(cfg[i]) \notin Range(OwnComments(cfg, n))
                        /\ CommentOf(cfg[i]) \notin Range(OwnComments(cfg, 0)) )
                      => CommentOf(cfg[i]) \notin Range(hosts[r].Notes)

\* the scan loop over the lines ls, numbered from n + 1, then the last commit
RECURSIVE scanFrom(_, _, _, _, _)
scanFrom(a, hs, ls, n, up) ==
    IF ls = <<>> THEN commit(a, hs, up).hosts
    ELSE scanFrom(scanLine(a, hs, Head(ls), n + 1, up).acc,
                  scanLine(a, hs, Head(ls), n + 1, up).hosts,
                  Tail(ls), n + 1, up)

\* the lines of the block opened at line n: from n up to the line before the
\* next Host line with aliases, or to the end of the file
BlockLines(ls, n) ==
    LET later == {j \in (n + 1)..Len(ls) : AliasTokens(ls[j]) # <<>>}
    IN  SubSeq(ls, n, IF later = {} THEN Len(ls) ELSE SetMin(later) - 1)

\* the directive values of a record
Directives(h) == <<h.Hostname, h.User, h.Port, h.LocalForwards>>

\* C17 as stated: the Hostname, User, Port and LocalForwards of every record
\* are those of the directives between its Host line and the next Host line,
\* last write winning: what scanning the lines of its block alone, from empty
\* accumulators, gives.
C17_Original ==
    ppc = "done" =>
        \A r \in 1..Len(hosts) :
            \E h \in Range(scanFrom(EmptyAcc, <<>>,
                                     BlockLines(cfg, hosts[r].SourceLine), 0, dnsUp)) :
                /\ h.Alias = hosts[r].Alias
                /\ Directives(h) = Directives(hosts[r])

\* the port the stated rule extracts from a bind token: the text after "]:"
\* when "]:" occurs followed by at least one character, else the text after
\* the last ":" when ":" occurs, else the whole token
StatedPort(tok) ==
    IF IndexStr(tok, <<"]", ":">>) >= 0 /\ IndexStr(tok, <<"]", ":">>) + 2 < Len(tok)
    THEN Slice(tok, IndexStr(tok, <<"]", ":">>) + 2, Len(tok))
    ELSE IF ":" \in Range(tok)
    THEN Slice(tok, LastIndex(tok, ":") + 1, Len(tok))
    ELSE tok

\* the bind token of the LocalForward line of the file
BindOf(ls) == Fields(ls[2])[2]

\* C18 as stated: the port extracted from the bind token follows the stated
\* rule, and is appended to the block's local forwards unless it is empty.
C18_Original ==
    (ppc = "done" /\ Len(cfg) = 2) =>
        /\ Len(hosts) = 1
        /\ hosts[1].LocalForwards =
              IF StatedPort(BindOf(cfg)) = <<>> THEN <<>>
              ELSE <<StatedPort(BindOf(cfg))>>

----------------------------------------------------------------------------
(* The bubbletea model: messages *)

\* error values; NoErr is nil
NoErr          == "nil"
ErrNoHosts     == "no hosts to select"
ErrNoConfig    == "no config file to edit"
ErrEditorExit  == "exit status 1"
ErrRegexp      == "error parsing regexp: missing closing )"

\* key names, as msg.String() spells them
K_esc       == <<"e", "s", "c">>
K_enter     == <<"e", "n", "t", "e", "r">>
K_ctrlc     == <<"c", "t", "r", "l", "+", "c">>
K_backspace == <<"b", "a", "c", "k", "s", "p", "a", "c", "e">>
K_delete    == <<"d", "e", "l", "e", "t", "e">>
K_up        == <<"u", "p">>
K_down      == <<"d", "o", "w", "n">>

\* a tea.KeyMsg of a named key (Type is the key's own type, not KeyRunes)
NamedKey(name) == [kind |-> "KeyMsg", name |-> name, Type |-> "KeyNamed", Runes |-> <<>>]
\* a tea.KeyMsg of Type KeyRunes
RuneKey(runes) == [kind |-> "KeyMsg", name |-> <<>>, Type |-> "KeyRunes", Runes |-> runes]
\* editorFinishedMsg{err}
editorFinishedMsg(err) == [err |-> err, kind |-> "editorFinishedMsg"]
\* tea.WindowSizeMsg
WindowSizeMsg(w, h) == [kind |-> "WindowSizeMsg", Width |-> w, Height |-> h]
\* no message processed yet
NoMsg == [kind |-> "none"]

\* tea.Key.String(): the runes themselves for KeyRunes, the key's name otherwise
KeyString(msg) == IF msg.Type = "KeyRunes" THEN msg.Runes ELSE msg.name

\* the named keys and the runes the sessions of the model press
NamedKeys  == {K_esc, K_enter, K_ctrlc, K_backspace, K_delete, K_up, K_down}
TypedRunes == {"q", "n", "/", "e", "("}
WindowSizes == {<<80, 24>>}

\* number of bytes of the UTF-8 encoding of a rune
RuneLen(c) == IF c \in {"\t", " ", "q", "n", "/", "e", "(", "|"} THEN 1 ELSE 2

\* len(s) of a Go string: its length in bytes
RECURSIVE ByteLen(_)
ByteLen(s) == IF s = <<>> THEN 0 ELSE RuneLen(Head(s)) + ByteLen(Tail(s))

\* the cap on filterQuery
FilterCap == 256

----------------------------------------------------------------------------
(* The bubbletea model: initialModel, applyFilter, editorCommand, Update *)

ZeroHost == Host(<<>>, <<>>, <<>>, <<>>, <<>>, <<>>, <<>>, <<>>, 0)

initialModel(hs, localForward, configPath) ==
    [allHosts |-> hs, hosts |-> hs, cursor |-> 0, ready |-> FALSE,
     width |-> 0, height |-> 0, showNotes |-> FALSE, err |-> NoErr,
     chosen |-> FALSE, selectedHost |-> ZeroHost,
     localForward |-> localForward, configPath |-> configPath,
     filterActive |-> FALSE, filterQuery |-> <<>>, lastValidRegex |-> <<>>,
     filterErr |-> NoErr]

clampCursor_Resets(mm) ==
    IF Len(mm.hosts) = 0 THEN [mm EXCEPT !.cursor = 0]
    ELSE IF mm.cursor >= Len(mm.hosts)
    THEN [mm EXCEPT !.cursor = Len(mm.hosts) - 1]
    ELSE [mm EXCEPT !.cursor = 0]

\* applyFilter from "if len(m.hosts) == 0": the cursor is clamped
clampCursor(mm) ==
    IF Len(mm.hosts) = 0 THEN [mm EXCEPT !.cursor = 0]
    ELSE IF mm.cursor >= Len(mm.hosts)
    THEN [mm EXCEPT !.cursor = Len(mm.hosts) - 1]
    ELSE mm

applied_NoClamp(mm, r) ==
    IF r.err THEN [mm EXCEPT !.filterErr = ErrRegexp]
    ELSE [mm EXCEPT !.filterErr = NoErr, !.hosts = r.hosts]

applied_ErrClearsList(mm, r) ==
    clampCursor([mm EXCEPT !.filterErr = IF r.err THEN ErrRegexp ELSE NoErr,
                           !.hosts = r.hosts])

\* applyFilter once filterHostsRegex has returned r
applied(mm, r) ==
    IF r.err THEN [mm EXCEPT !.filterErr = ErrRegexp]
    ELSE clampCursor([mm EXCEPT !.filterErr = NoErr, !.hosts = r.hosts])

\* (m *model) applyFilter(pattern)
applyFilter(mm, pattern) == applied(mm, filterHostsRegex(mm.allHosts, pattern))

\* editorCommand(path, line): the error it returns.  The editor name is
\* trimmed and replaced by "vi" when empty before strings.Fields splits it, so
\* parts is never empty and the error branch is not taken.
editorCommandErr(path, line) == NoErr

\* what Update returns: the model and the tea.Cmd ("nil", "quit", "exec")
Ret(mm, cmd) == [m |-> mm, cmd |-> cmd]

\* ---- case tea.KeyMsg, "if m.filterActive { switch msg.String() ... }" ----

filterEsc_NoRecompute(mm) ==
    Ret([mm EXCEPT !.filterActive = FALSE, !.filterErr = NoErr,
                   !.filterQuery = mm.lastValidRegex], "nil")

\* case "esc"
filterEsc(mm) ==
    Ret(applyFilter([mm EXCEPT !.filterActive = FALSE,
                               !.filterErr = NoErr,
                               !.filterQuery = mm.lastValidRegex],
                    mm.lastValidRegex), "nil")

\* "if m.filterErr != nil { return m, nil }; m.lastValidRegex = pattern; ..."
commitPattern(m1, pattern) ==
    IF m1.filterErr # NoErr THEN Ret(m1, "nil")
    ELSE Ret([m1 EXCEPT !.lastValidRegex = pattern, !.filterActive = FALSE], "nil")

filterEnter_CommitsFirst(mm) ==
    commitPattern(applyFilter([mm EXCEPT !.lastValidRegex = mm.filterQuery],
                              mm.filterQuery),
                  mm.filterQuery)

\* case "enter"
filterEnter(mm) == commitPattern(applyFilter(mm, mm.filterQuery), mm.filterQuery)

\* case "ctrl+c", "q": the keys of the case
FilterQuitKeys == {K_ctrlc, <<"q">>}

\* "m.filterQuery = q; m.applyFilter(m.filterQuery); return m, nil"
setQuery(mm, q) == Ret(applyFilter([mm EXCEPT !.filterQuery = q], q), "nil")

\* case "backspace"; utf8.DecodeLastRuneInString yields the last rune and
\* n >= 1 for a non-empty string
filterBackspace(mm) ==
    IF mm.filterQuery # <<>>
    THEN setQuery(mm, SubSeq(mm.filterQuery, 1, Len(mm.filterQuery) - 1))
    ELSE Ret(mm, "nil")

\* default
filterDefault(mm, msg) ==
    IF msg.Type = "KeyRunes"
    THEN IF ByteLen(mm.filterQuery) < FilterCap
         THEN setQuery(mm, mm.filterQuery \o msg.Runes)
         ELSE Ret(mm, "nil")
    ELSE Ret(mm, "nil")

UpdateFilterKey(mm, msg) ==
    LET k == KeyString(msg)
    IN  CASE k = K_esc          -> filterEsc(mm)
          [] k = K_enter        -> filterEnter(mm)
          [] k \in FilterQuitKeys -> Ret(mm, "quit")
          [] k = K_backspace    -> filterBackspace(mm)
          [] OTHER              -> filterDefault(mm, msg)

\* ---- case tea.KeyMsg, the second "switch msg.String()" ----

BrowseQuitKeys_NoEsc == {K_ctrlc, <<"q">>}

\* case "ctrl+c", "q", "esc": the keys of the case
BrowseQuitKeys == {K_ctrlc, <<"q">>, K_esc}

\* case "j", "l", "down"
browseDown(mm) ==
    IF Len(mm.hosts) > 0
    THEN Ret([mm EXCEPT !.cursor = (mm.cursor + 1) % Len(mm.hosts)], "nil")
    ELSE Ret(mm, "nil")

\* case "k", "h", "up"
browseUp(mm) ==
    IF Len(mm.hosts) > 0
    THEN Ret([mm EXCEPT !.cursor = (mm.cursor - 1 + Len(mm.hosts)) % Len(mm.hosts)],
             "nil")
    ELSE Ret(mm, "nil")

browseEnter_FirstRow(mm) ==
    IF Len(mm.hosts) = 0 THEN Ret([mm EXCEPT !.err = ErrNoHosts], "nil")
    ELSE Ret([mm EXCEPT !.chosen = TRUE, !.selectedHost = mm.hosts[1]], "quit")

browseEnter_EmptyQuits(mm) ==
    IF Len(mm.hosts) = 0 THEN Ret([mm EXCEPT !.err = ErrNoHosts], "quit")
    ELSE Ret([mm EXCEPT !.chosen = TRUE,
                        !.selectedHost = mm.hosts[mm.cursor + 1]], "quit")

\* case "enter"; m.hosts[m.cursor] is 0-based
browseEnter(mm) ==
    IF Len(mm.hosts) = 0 THEN Ret([mm EXCEPT !.err = ErrNoHosts], "nil")
    ELSE Ret([mm EXCEPT !.chosen = TRUE,
                        !.selectedHost = mm.hosts[mm.cursor + 1]], "quit")

\* case "n"
browseNotes(mm) == Ret([mm EXCEPT !.showNotes = ~mm.showNotes], "nil")

browseSlash_EmptySeed(mm) ==
    Ret([mm EXCEPT !.filterActive = TRUE, !.filterQuery = <<>>], "nil")

\* case "/"
browseSlash(mm) ==
    Ret([mm EXCEPT !.filterActive = TRUE, !.filterQuery = mm.lastValidRegex], "nil")

\* "line := ...SourceLine; if line <= 0 { line = 1 }"
editorLine(sourceLine) == IF sourceLine <= 0 THEN 1 ELSE sourceLine

\* "cmd, err := editorCommand(...); if err != nil {...}; return m, tea.ExecProcess(...)"
launchEditor(mm, err) ==
    IF err # NoErr THEN Ret([mm EXCEPT !.err = err], "nil") ELSE Ret(mm, "exec")

\* case "e"
browseEdit(mm) ==
    IF Len(mm.hosts) = 0 \/ mm.configPath = <<>>
    THEN Ret([mm EXCEPT !.err = ErrNoConfig], "nil")
    ELSE launchEditor(mm, editorCommandErr(mm.configPath,
                            editorLine(mm.hosts[mm.cursor + 1].SourceLine)))

browseClear_NoRecompute(mm) ==
    IF mm.lastValidRegex # <<>>
    THEN Ret([mm EXCEPT !.lastValidRegex = <<>>, !.filterQuery = <<>>], "nil")
    ELSE Ret(mm, "nil")

\* case "backspace", "delete"
browseClear(mm) ==
    IF mm.lastValidRegex # <<>>
    THEN Ret(applyFilter([mm EXCEPT !.lastValidRegex = <<>>,
                                    !.filterQuery = <<>>], <<>>), "nil")
    ELSE Ret(mm, "nil")

UpdateBrowseKey(mm, msg) ==
    LET k == KeyString(msg)
    IN  CASE k \in BrowseQuitKeys              -> Ret(mm, "quit")
          [] k \in {<<"j">>, <<"l">>, K_down}  -> browseDown(mm)
          [] k \in {<<"k">>, <<"h">>, K_up}    -> browseUp(mm)
          [] k = K_enter                       -> browseEnter(mm)
          [] k = <<"n">>                       -> browseNotes(mm)
          [] k = <<"/">>                       -> browseSlash(mm)
          [] k = <<"e">>                       -> browseEdit(mm)
          [] k \in {K_backspace, K_delete}     -> browseClear(mm)
          [] OTHER                             -> Ret(mm, "nil")

UpdateEditorFinished_Quits(mm, msg) ==
    IF msg.err # NoErr THEN Ret([mm EXCEPT !.err = msg.err], "quit")
    ELSE Ret(mm, "nil")

UpdateEditorFinished_ClearsErr(mm, msg) ==
    Ret([mm EXCEPT !.err = msg.err], "nil")

\* ---- case editorFinishedMsg ----
UpdateEditorFinished(mm, msg) ==
    IF msg.err # NoErr THEN Ret([mm EXCEPT !.err = msg.err], "nil")
    ELSE Ret(mm, "nil")

\* ---- case tea.WindowSizeMsg ----
UpdateWindowSize(mm, msg) ==
    Ret([mm EXCEPT !.width = msg.Width, !.height = msg.Height, !.ready = TRUE],
        "nil")

\* (m model) Update(msg)
Update(mm, msg) ==
    CASE msg.kind = "editorFinishedMsg" -> UpdateEditorFinished(mm, msg)
      [] msg.kind = "KeyMsg" ->
            IF mm.filterActive THEN UpdateFilterKey(mm, msg)
            ELSE UpdateBrowseKey(mm, msg)
      [] msg.kind = "WindowSizeMsg" -> UpdateWindowSize(mm, msg)
      [] OTHER -> Ret(mm, "nil")

----------------------------------------------------------------------------
(* Spec: one interactive session, from tea.NewProgram(...).Run() to the    *)
(* end of main().  The tea runtime delivers one message at a time to       *)
(* Update; a returned tea.Quit ends Run, after which no message is         *)
(* delivered; a returned tea.ExecProcess later produces one                *)
(* editorFinishedMsg, delivered like any other message.                    *)

\* what main() hands to initialModel: the hosts parseSSHConfig returned (nil
\* when the file is absent) and the value of the -L flag
SessionHost(alias, notes, line) ==
    Host(alias, <<>>, <<>>, <<>>, <<>>, <<>>, notes, <<"c">>, line)

SessionInputs ==
    { [hosts |-> <<>>, localForward |-> <<>>],
      [hosts |-> << SessionHost(<<"e">>, <<>>, 1) >>,
       localForward |-> <<"8", ":", "h", ":", "9">>],
      [hosts |-> << SessionHost(<<"n">>, <<>>, 1),
                    SessionHost(<<"e">>, <<>>, 3),
                    SessionHost(<<"n", "e">>, <<<<"x">>>>, 3) >>,
       localForward |-> <<>>] }

\* cfgPath after the default has been filled in: never empty
ConfigPath == <<"c">>

Init ==
    /\ \E inp \in SessionInputs :
          m = initialModel(inp.hosts, inp.localForward, ConfigPath)
    /\ pc = "running"
    /\ inflight = 0
    /\ sshArgs = <<>>
    /\ lastMsg = NoMsg
    /\ IdleFilter
    /\ IdleParse

\* the runtime acts on what Update returned for msg
Returned(r, msg) ==
    /\ Len(r.m.filterQuery) <= MaxQuery
    /\ r.cmd = "exec" => inflight < MaxInflight
    /\ m' = r.m
    /\ pc' = IF r.cmd = "quit" THEN "quit" ELSE "running"
    /\ inflight' = (IF r.cmd = "exec" THEN inflight + 1 ELSE inflight)
                     - (IF msg.kind = "editorFinishedMsg" THEN 1 ELSE 0)

\* the runtime hands msg to Update
Deliver(msg) ==
    /\ pc = "running"
    /\ Returned(Update(m, msg), msg)
    /\ lastMsg' = msg
    /\ UNCHANGED <<sshArgs, filterVars, parseVars>>

\* a named key is pressed
PressNamed == \E k \in NamedKeys : Deliver(NamedKey(k))

\* a character is typed
TypeRune == \E c \in TypedRunes : Deliver(RuneKey(<<c>>))

\* the terminal is resized (also sent once by the runtime at start-up)
Resize == \E wh \in WindowSizes : Deliver(WindowSizeMsg(wh[1], wh[2]))

\* the editor started by tea.ExecProcess finishes, with or without an error
EditorFinished ==
    /\ inflight > 0
    /\ \E err \in {NoErr, ErrEditorExit} : Deliver(editorFinishedMsg(err))

\* argv of ssh as built by runSSH, and by the fallback exec.Command("ssh", ...)
sshArgv(host, localForward) ==
    <<"ssh">> \o (IF localForward # <<>> THEN <<"-L", localForward>> ELSE <<>>)
              \o <<host>>

\* main() after p.Run(): nothing chosen, return
MainReturn ==
    /\ pc = "quit"
    /\ ~m.chosen \/ m.selectedHost.Alias = <<>>
    /\ pc' = "exit"
    /\ UNCHANGED <<m, inflight, sshArgs, lastMsg, filterVars, parseVars>>

\* main() after p.Run(): runSSH replaces the process ("exec"), or fails and
\* ssh is spawned as a child ("spawn")
MainSSH ==
    /\ pc = "quit"
    /\ ~(~m.chosen \/ m.selectedHost.Alias = <<>>)
    /\ pc' \in {"exec", "spawn"}
    /\ sshArgs' = sshArgv(m.selectedHost.Alias, m.localForward)
    /\ UNCHANGED <<m, inflight, lastMsg, filterVars, parseVars>>

Next == PressNamed \/ TypeRune \/ Resize \/ EditorFinished \/ MainReturn \/ MainSSH

Spec == Init /\ [][Next]_vars

\* the state is well-formed
TypeOK ==
    /\ pc \in {"running", "quit", "exit", "exec", "spawn"}
    /\ inflight \in 0..MaxInflight
    /\ m.cursor \in Nat
    /\ m.chosen \in BOOLEAN /\ m.filterActive \in BOOLEAN

----------------------------------------------------------------------------
(* SpecCap: sessions that fill filterQuery up to its cap.  The user opens   *)
(* the filter editor and enters one character over and over: with a held   *)
(* key, with a held key of a two-byte character, or with pastes, which the *)
(* terminal delivers as one tea.KeyMsg of Type KeyRunes carrying several   *)
(* runes.                                                                  *)

\* a rune whose UTF-8 encoding takes two bytes (such as U+00E9)
TwoByteRune == "U+00E9"

\* msg.Runes of the events that enter the character
HeldKeys == { <<"n">>, <<TwoByteRune>>, <<"n", "n">> }

\* q holds no character but those of runes
TypedWith(q, runes) == Range(q) \subseteq Range(runes)

\* the runtime acts on what Update returned; no editor is started here
ReturnedCap(r) ==
    /\ m' = r.m
    /\ pc' = IF r.cmd = "quit" THEN "quit" ELSE "running"

DeliverCap(msg) ==
    /\ pc = "running"
    /\ ReturnedCap(Update(m, msg))
    /\ lastMsg' = msg
    /\ UNCHANGED <<inflight, sshArgs, filterVars, parseVars>>

\* "/" is typed in Browsing
CapOpen == ~m.filterActive /\ DeliverCap(RuneKey(<<"/">>))

\* one more event with the character of the query arrives in FilterEditing
CapHold ==
    /\ m.filterActive
    /\ \E runes \in HeldKeys :
          TypedWith(m.filterQuery, runes) /\ DeliverCap(RuneKey(runes))

\* backspace in FilterEditing
CapBackspace == m.filterActive /\ DeliverCap(NamedKey(K_backspace))

\* esc in FilterEditing
CapEsc == m.filterActive /\ DeliverCap(NamedKey(K_esc))

NextCap == CapOpen \/ CapHold \/ CapBackspace \/ CapEsc

SpecCap == Init /\ [][NextCap]_vars

----------------------------------------------------------------------------
(* SpecApply: one call of applyFilter on a model in FilterEditing.  The     *)
(* model is one a session reaches: five hosts, hosts the filter of          *)
(* allHosts by the query typed so far, the cursor on any row of hosts.      *)

ApplyHosts ==
    << SessionHost(<<"x">>, <<>>, 1), SessionHost(<<"n">>, <<>>, 2),
       SessionHost(<<"y">>, <<>>, 3), SessionHost(<<"e", "n">>, <<>>, 4),
       SessionHost(<<"e">>, <<>>, 5) >>

\* the rows the cursor can be on
CursorRows(hs) == IF hs = <<>> THEN {0} ELSE 0..(Len(hs) - 1)

\* the model after "/" and the query q, the cursor on row c
EditingModel(q, c) ==
    [initialModel(ApplyHosts, <<>>, ConfigPath) EXCEPT
        !.hosts = filterHostsRegex(ApplyHosts, q).hosts,
        !.cursor = c, !.filterActive = TRUE, !.filterQuery = q]

InitApply ==
    /\ \E q \in {p \in SeqsUpTo(PatChars, MaxPat) : ~filterHostsRegex(ApplyHosts, p).err} :
          \E c \in CursorRows(filterHostsRegex(ApplyHosts, q).hosts) :
              m = EditingModel(q, c)
    /\ fPattern \in SeqsUpTo(PatChars, MaxPat)
    /\ fRes = NotCalled
    /\ fAll = <<>>
    /\ pc = "idle" /\ inflight = 0 /\ lastMsg = NoMsg /\ sshArgs = <<>>
    /\ IdleParse

\* the call m.applyFilter(fPattern); fRes.m is the model after the call
ApplyCall ==
    /\ fRes = NotCalled
    /\ fRes' = [m |-> applyFilter(m, fPattern), called |-> TRUE]
    /\ UNCHANGED <<fAll, fPattern, tuiVars, parseVars>>

NextApply == ApplyCall

SpecApply == InitApply /\ [][NextApply]_vars

----------------------------------------------------------------------------
(* Claims about the session *)

\* the latest Update call handled the key named k / a typed rune
KeyWas(msg, k) == msg.kind = "KeyMsg" /\ KeyString(msg) = k
RunesWere(msg) == msg.kind = "KeyMsg" /\ msg.Type = "KeyRunes"

\* the selection state of C9
Selection(mm) ==
    <<mm.hosts, mm.cursor, mm.filterActive, mm.filterQuery, mm.lastValidRegex,
      mm.showNotes, mm.chosen, mm.selectedHost>>

\* hs is what filtering all by pattern p must give: all itself for a pattern
\* that is empty after trimming, else the hosts the trimmed pattern matches
IsFilterOf(hs, all, p) ==
    IF TrimSpace(p) = <<>> THEN hs = all
    ELSE IsSelection(hs, all,
            LAMBDA h : \E f \in SearchedFields(h) : MatchString(TrimSpace(p), f))

\* C1: enter in Browsing on a non-empty list sets chosen, selects exactly
\* hosts[cursor] and ends the session; chosen and selectedHost change in no
\* other step and at most once; the last argument of ssh is that host's alias,
\* and main never returns without ssh once a host is chosen.
C1_ConfirmChooses ==
    /\ [][ ( /\ pc = "running" /\ ~m.filterActive /\ m.hosts # <<>>
             /\ KeyWas(lastMsg', K_enter) )
           => ( /\ m'.chosen
                /\ m'.selectedHost = m.hosts[m.cursor + 1]
                /\ pc' = "quit" ) ]_vars
    /\ [][ (m'.chosen # m.chosen \/ m'.selectedHost # m.selectedHost)
           => ( /\ ~m.chosen /\ m'.chosen
                /\ pc = "running" /\ ~m.filterActive /\ m.hosts # <<>>
                /\ KeyWas(lastMsg', K_enter) ) ]_vars
    /\ [](pc \in {"exec", "spawn"} =>
            /\ m.chosen
            /\ sshArgs[Len(sshArgs)] = m.selectedHost.Alias
            /\ m.selectedHost = m.hosts[m.cursor + 1])
    /\ [](pc = "exit" => ~m.chosen)

\* ssh was started for the third row of the list after enter
C1_Witness ==
    /\ pc \in {"exec", "spawn"}
    /\ KeyWas(lastMsg, K_enter)
    /\ m.cursor = 2
    /\ sshArgs[Len(sshArgs)] = m.hosts[3].Alias

\* C2: the cursor is a valid 0-based index of hosts whenever hosts is
\* non-empty, and is 0 whenever hosts is empty.
C2_CursorValid ==
    IF m.hosts # <<>> THEN m.cursor \in 0..(Len(m.hosts) - 1)
    ELSE m.cursor = 0

\* a live keystroke shrank the list of three to two, the cursor sits on the
\* new last row
C2_Witness ==
    /\ m.filterActive /\ RunesWere(lastMsg)
    /\ Len(m.allHosts) = 3 /\ Len(m.hosts) = 2
    /\ m.cursor = 1

\* a live keystroke emptied the list
C2_WitnessEmpty ==
    /\ m.filterActive /\ RunesWere(lastMsg)
    /\ m.allHosts # <<>> /\ m.hosts = <<>> /\ m.cursor = 0

\* C4: a key handled in FilterEditing that applies a pattern which does not
\* compile (the new filterQuery, for a typed rune, backspace or enter) gets an
\* error and no hosts from the filter, and changes the model in nothing but
\* filterErr and, for a keystroke, filterQuery: hosts, cursor and
\* lastValidRegex are what they were.
C4_BadPatternKeepsState ==
    [][ ( /\ pc = "running" /\ m.filterActive
          /\ lastMsg'.kind = "KeyMsg"
          /\ KeyString(lastMsg') \notin ({K_esc} \cup FilterQuitKeys)
          /\ CompileFails(TrimSpace(m'.filterQuery)) )
        => ( /\ filterHostsRegex(m.allHosts, m'.filterQuery).err
             /\ filterHostsRegex(m.allHosts, m'.filterQuery).hosts = <<>>
             /\ m'.hosts = m.hosts
             /\ m'.cursor = m.cursor
             /\ m'.lastValidRegex = m.lastValidRegex
             /\ m'.filterErr # NoErr
             /\ pc' = "running"
             /\ m' = [m EXCEPT !.filterErr = m'.filterErr,
                               !.filterQuery = m'.filterQuery]
             /\ KeyWas(lastMsg', K_enter) => m'.filterQuery = m.filterQuery ) ]_vars

\* enter was pressed on a pattern that does not compile, while a filter is
\* committed and the cursor sits on the second row
C4_Witness ==
    /\ KeyWas(lastMsg, K_enter) /\ m.filterActive
    /\ CompileFails(TrimSpace(m.filterQuery)) /\ m.filterErr # NoErr
    /\ m.lastValidRegex # <<>>
    /\ Len(m.hosts) = 3 /\ m.cursor = 1

\* C5: ctrl+c, q or esc in Browsing and ctrl+c in FilterEditing end the
\* session leaving the model untouched and no host chosen; and ssh is never
\* started for a session that ended without a chosen host.
C5_QuitChoosesNothing ==
    /\ [][ ( /\ pc = "running"
             /\ lastMsg'.kind = "KeyMsg"
             /\ \/ ~m.filterActive /\ KeyString(lastMsg') \in {K_ctrlc, <<"q">>, K_esc}
                \/ m.filterActive /\ KeyString(lastMsg') = K_ctrlc )
           => ( pc' = "quit" /\ m' = m /\ ~m'.chosen ) ]_vars
    /\ []((pc # "running" /\ ~m.chosen) => (pc \in {"quit", "exit"} /\ sshArgs = <<>>))

\* main returned without ssh after ctrl+c in FilterEditing, after edits
C5_Witness ==
    /\ pc = "exit" /\ ~m.chosen /\ sshArgs = <<>>
    /\ m.filterActive /\ KeyWas(lastMsg, K_ctrlc)
    /\ m.filterQuery # m.lastValidRegex

\* C6: enter in FilterEditing: when filterQuery compiles, lastValidRegex
\* becomes filterQuery, the mode becomes Browsing and hosts is the filter of
\* allHosts by filterQuery; when it does not compile the mode stays
\* FilterEditing, filterQuery and lastValidRegex are unchanged and filterErr
\* is set.
C6_ConfirmFilter ==
    [][ ( /\ pc = "running" /\ m.filterActive /\ KeyWas(lastMsg', K_enter) )
        => IF ~CompileFails(TrimSpace(m.filterQuery))
           THEN /\ m'.lastValidRegex = m.filterQuery
                /\ m'.filterQuery = m.filterQuery
                /\ ~m'.filterActive
                /\ m'.filterErr = NoErr
                /\ IsFilterOf(m'.hosts, m.allHosts, m.filterQuery)
                /\ pc' = "running"
           ELSE /\ m'.filterActive
                /\ m'.filterQuery = m.filterQuery
                /\ m'.filterErr # NoErr
                /\ m'.lastValidRegex = m.lastValidRegex
                /\ pc' = "running" ]_vars

\* enter committed a new pattern that hides part of the list
C6_Witness ==
    /\ pc = "running" /\ KeyWas(lastMsg, K_enter) /\ ~m.filterActive
    /\ m.lastValidRegex # <<>> /\ m.filterQuery = m.lastValidRegex
    /\ Len(m.hosts) = 2 /\ Len(m.allHosts) = 3

\* C7 as stated: in FilterEditing with filterQuery below the cap, every typed
\* rune is appended to filterQuery, the filter is re-applied and the session
\* continues in FilterEditing.
C7_Original ==
    [][ ( /\ pc = "running" /\ m.filterActive
          /\ RunesWere(lastMsg')
          /\ ByteLen(m.filterQuery) < FilterCap )
        => ( /\ m'.filterQuery = m.filterQuery \o lastMsg'.Runes
             /\ m'.filterActive
             /\ pc' = "running"
             /\ m' = applyFilter([m EXCEPT !.filterQuery = m'.filterQuery],
                                 m'.filterQuery) ) ]_vars

\* C8: esc in FilterEditing sets filterQuery to lastValidRegex, the mode to
\* Browsing, clears filterErr, leaves lastValidRegex unchanged and makes hosts
\* the filter of allHosts by lastValidRegex; the session continues.
C8_CancelFilter ==
    [][ ( /\ pc = "running" /\ m.filterActive /\ KeyWas(lastMsg', K_esc) )
        => ( /\ m'.filterQuery = m.lastValidRegex
             /\ ~m'.filterActive
             /\ m'.filterErr = NoErr
             /\ m'.lastValidRegex = m.lastValidRegex
             /\ IsFilterOf(m'.hosts, m.allHosts, m.lastValidRegex)
             /\ pc' = "running" ) ]_vars

\* esc returned to Browsing with the committed filter still in force
C8_Witness ==
    /\ pc = "running" /\ KeyWas(lastMsg, K_esc) /\ ~m.filterActive
    /\ m.lastValidRegex # <<>>
    /\ Len(m.hosts) = 2 /\ Len(m.allHosts) = 3

\* C9: "e" in Browsing and every editorFinishedMsg, in either mode, leave the
\* session running and change nothing of the model except err, which a
\* completion sets only when it carries an error.
C9_EditorKeepsSelection ==
    /\ [][ ( /\ pc = "running" /\ lastMsg'.kind = "editorFinishedMsg" )
           => ( /\ pc' = "running"
                /\ Selection(m') = Selection(m)
                /\ m' = IF lastMsg'.err # NoErr
                        THEN [m EXCEPT !.err = lastMsg'.err] ELSE m ) ]_vars
    /\ [][ ( /\ pc = "running" /\ ~m.filterActive /\ KeyWas(lastMsg', <<"e">>) )
           => ( /\ pc' = "running"
                /\ m' = [m EXCEPT !.err = m'.err]
                /\ inflight' > inflight => m' = m ) ]_vars

\* a failed editor run was reported while the user was editing a filter
C9_Witness ==
    /\ pc = "running" /\ lastMsg = editorFinishedMsg(ErrEditorExit)
    /\ m.filterActive /\ m.filterQuery # <<>>
    /\ m.err = ErrEditorExit

\* C13: enter in Browsing on an empty list records the "no hosts to select"
\* error and changes nothing else: no host is chosen, the session keeps
\* running, hosts, cursor, mode, filterQuery and lastValidRegex stay.
C13_ConfirmOnEmpty ==
    [][ ( /\ pc = "running" /\ ~m.filterActive /\ m.hosts = <<>>
          /\ KeyWas(lastMsg', K_enter) )
        => ( /\ m'.err = ErrNoHosts
             /\ ~m'.chosen /\ m'.selectedHost = ZeroHost
             /\ pc' = "running"
             /\ m' = [m EXCEPT !.err = ErrNoHosts] ) ]_vars

\* enter was pressed while a committed filter hides all three hosts
C13_Witness ==
    /\ pc = "running" /\ KeyWas(lastMsg, K_enter)
    /\ ~m.filterActive /\ m.lastValidRegex # <<>>
    /\ Len(m.allHosts) = 3 /\ m.hosts = <<>>
    /\ m.err = ErrNoHosts /\ ~m.chosen

\* after that error the clear-filter key was handled and the list is back
C13_WitnessLater ==
    /\ pc = "running" /\ KeyWas(lastMsg, K_backspace)
    /\ m.err = ErrNoHosts /\ Len(m.hosts) = 3

\* C14: "/" in Browsing switches to FilterEditing with filterQuery set to
\* lastValidRegex and changes nothing else (hosts and cursor stay); and
\* lastValidRegex changes only when enter commits a query in FilterEditing
\* or backspace/delete clears it in Browsing, so edits that were cancelled
\* never reach the seed.
C14_SeedFromCommitted ==
    /\ [][ ( /\ pc = "running" /\ ~m.filterActive /\ KeyWas(lastMsg', <<"/">>) )
           => ( /\ m'.filterActive
                /\ m'.filterQuery = m.lastValidRegex
                /\ m'.hosts = m.hosts /\ m'.cursor = m.cursor
                /\ pc' = "running"
                /\ m' = [m EXCEPT !.filterActive = TRUE,
                                  !.filterQuery = m.lastValidRegex] ) ]_vars
    /\ [][ m'.lastValidRegex # m.lastValidRegex
           => \/ /\ m.filterActive /\ KeyWas(lastMsg', K_enter)
                 /\ m'.lastValidRegex = m.filterQuery
              \/ /\ ~m.filterActive /\ m'.lastValidRegex = <<>>
                 /\ KeyString(lastMsg') \in {K_backspace, K_delete} ]_vars

\* the editor was re-opened on a committed filter that hides one host, with
\* the cursor on the second row
C14_Witness ==
    /\ pc = "running" /\ KeyWas(lastMsg, <<"/">>) /\ m.filterActive
    /\ m.lastValidRegex # <<>> /\ m.filterQuery = m.lastValidRegex
    /\ Len(m.hosts) = 2 /\ m.cursor = 1

\* C15 as stated: filterQuery never holds more than 256 characters, whatever
\* the input events, events that carry several characters included.
C15_Original == Len(m.filterQuery) <= FilterCap

\* C16: after a successful recompute by applyFilter the cursor is 0 when the
\* new list is empty, the last row when the old cursor was at or beyond the
\* new length, and the old cursor otherwise.
C16_ClampRule ==
    (fRes.called /\ ~CompileFails(TrimSpace(fPattern))) =>
        /\ fRes.m.filterErr = NoErr
        /\ fRes.m.cursor =
              IF Len(fRes.m.hosts) = 0 THEN 0
              ELSE IF m.cursor >= Len(fRes.m.hosts) THEN Len(fRes.m.hosts) - 1
              ELSE m.cursor

\* cursor 4 on a list of five that shrinks to two: the cursor moves to 1
C16_Witness ==
    /\ fRes.called
    /\ Len(m.hosts) = 5 /\ m.cursor = 4
    /\ Len(fRes.m.hosts) = 2 /\ fRes.m.cursor = 1

\* cursor 1 on a list of five that shrinks to two: the cursor stays on 1
C16_WitnessKept ==
    /\ fRes.called
    /\ Len(m.hosts) = 5 /\ m.cursor = 1
    /\ Len(fRes.m.hosts) = 2 /\ fRes.m.cursor = 1

\* cursor 2 on a list of five that becomes empty: the cursor moves to 0
C16_WitnessEmpty ==
    /\ fRes.called
    /\ Len(m.hosts) = 5 /\ m.cursor = 2
    /\ fRes.m.hosts = <<>> /\ fRes.m.cursor = 0 /\ fRes.m.filterErr = NoErr

\* C19: whenever the mode is Browsing, hosts is the filter of allHosts by
\* lastValidRegex (allHosts itself when lastValidRegex is empty) and
\* filterErr is nil; a chosen host is a row of that list, so it matches the
\* committed filter; and after backspace or delete in Browsing hosts is
\* allHosts.
C19_BrowsingShowsCommitted ==
    /\ [](~m.filterActive =>
            /\ IsFilterOf(m.hosts, m.allHosts, m.lastValidRegex)
            /\ m.filterErr = NoErr)
    /\ [](m.chosen =>
            /\ m.selectedHost \in Range(m.hosts)
            /\ TrimSpace(m.lastValidRegex) # <<>> =>
                  \E f \in SearchedFields(m.selectedHost) :
                      MatchString(TrimSpace(m.lastValidRegex), f))
    /\ [][ ( /\ pc = "running" /\ ~m.filterActive
             /\ lastMsg'.kind = "KeyMsg"
             /\ KeyString(lastMsg') \in {K_backspace, K_delete} )
           => ( /\ m'.hosts = m.allHosts
                /\ m'.lastValidRegex = <<>> /\ m'.filterQuery = <<>>
                /\ ~m'.filterActive /\ pc' = "running" ) ]_vars

\* ssh was started for a host chosen under a committed filter that hides one
\* of the three hosts
C19_Witness ==
    /\ pc \in {"exec", "spawn"} /\ m.chosen /\ ~m.filterActive
    /\ m.lastValidRegex # <<>>
    /\ Len(m.allHosts) = 3 /\ Len(m.hosts) = 2

\* delete cleared a committed filter that hid every host
C19_WitnessCleared ==
    /\ pc = "running" /\ KeyWas(lastMsg, K_delete) /\ ~m.filterActive
    /\ m.lastValidRegex = <<>> /\ Len(m.hosts) = 3
    /\ m.err = ErrNoHosts

\* C20: once err is set no message clears it: it stays set, and whenever it
\* changes it becomes one of the three errors Update records.
C20_ErrSticks ==
    /\ [][ m.err # NoErr => m'.err # NoErr ]_vars
    /\ [][ m'.err # m.err
           => \/ m'.err = ErrNoHosts /\ KeyWas(lastMsg', K_enter)
              \/ m'.err = ErrNoConfig /\ KeyWas(lastMsg', <<"e">>)
              \/ m'.err = lastMsg'.err /\ lastMsg'.kind = "editorFinishedMsg" ]_vars

\* an editor run failed, a later editor run succeeded: the error is still set
C20_Witness ==
    /\ pc = "running" /\ lastMsg = editorFinishedMsg(NoErr)
    /\ m.err = ErrEditorExit

\* enter on an emptied list recorded its error while an editor run is still
\* outstanding
C20_WitnessOverwritten ==
    /\ pc = "running" /\ KeyWas(lastMsg, K_enter)
    /\ m.err = ErrNoHosts /\ inflight = 1 /\ Len(m.allHosts) = 3

====
